---- MODULE Spec2Model ----
(***************************************************************************)
(* Model of backend/main.py, the TextSense moderation gateway.             *)
(*                                                                         *)
(* Scores and thresholds are fixed-point hundredths: 0.80 is 80, 0.5 is    *)
(* 50, 0.05 is 5.  Every score is a finite number.  Each HTTP handler is   *)
(* one action; the replies of the two providers and of the database are    *)
(* inputs of the action.                                                   *)
(***************************************************************************)
EXTENDS Integers, Sequences, FiniteSets, TLC

VARIABLES cfg, clock, coll, nReq, blocks, attempts, failures, last

vars == <<cfg, clock, coll, nReq, blocks, attempts, failures, last>>

-----------------------------------------------------------------------------
(* Bounds *)

MaxClock == 1        \* last value of int(time.time())
MaxRequests == 2     \* /moderate requests in one behaviour

-----------------------------------------------------------------------------
(* Values *)

NULL == "<None>"       \* Python None in a string-valued place
ABSENT == "<absent>"   \* a key that the JSON object does not have

Whitespace == {" "}
Chars == Whitespace \cup {"a"}
\* request texts: empty, whitespace only, and "a" with and without whitespace
\* around it
Texts == {<<>>, <<" ">>, <<" ", " ">>, <<"a">>, <<" ", "a", " ">>}

ScoreValues == {30, 50, 65, 80}
ThresholdValues == {50, 80}

\* what os.getenv leaves in the module globals, and which clients were built;
\* the thresholds are taken with BLOCK_THRESHOLD >= REVIEW_THRESHOLD
Configs ==
  {c \in [groq_client : BOOLEAN, HF_API_TOKEN : BOOLEAN, mongo_client : BOOLEAN,
          MOCK_MODE : {"0", "1"},
          BLOCK_THRESHOLD : ThresholdValues, REVIEW_THRESHOLD : ThresholdValues] :
     c.BLOCK_THRESHOLD >= c.REVIEW_THRESHOLD}

\* the "score" member of a provider's JSON object
ScoreFields ==
  {[t |-> "absent", v |-> 0], [t |-> "null", v |-> 0], [t |-> "str", v |-> 0]}
    \cup {[t |-> "num", v |-> s] : s \in ScoreValues}

\* what a provider call comes back with
Throw == [kind |-> "throw", score |-> [t |-> "absent", v |-> 0], label |-> ABSENT, seed |-> ABSENT]
NotJson == [kind |-> "notjson", score |-> [t |-> "absent", v |-> 0], label |-> ABSENT, seed |-> ABSENT]
NonObject == [kind |-> "nonobject", score |-> [t |-> "absent", v |-> 0], label |-> ABSENT, seed |-> ABSENT]
Falsy == [kind |-> "falsy", score |-> [t |-> "absent", v |-> 0], label |-> ABSENT, seed |-> ABSENT]
Object(f) == [kind |-> "object", score |-> f, label |-> "hate", seed |-> "tok"]
Bare(f) == [kind |-> "object", score |-> f, label |-> ABSENT, seed |-> ABSENT]

PrimaryOutcomes ==
  {Throw, NotJson, NonObject} \cup {Object(f) : f \in ScoreFields}
    \cup {Bare([t |-> "num", v |-> 30])}
SecondaryOutcomes ==
  {Throw, NotJson, NonObject, Falsy}
    \cup {Object(f) : f \in {g \in ScoreFields : g.t # "num" \/ g.v \in {30, 80}}}

\* ?limit= of /admin/logs
Limits == {0 - 1, 0, 1, 2}

-----------------------------------------------------------------------------
(* moderate: text normalisation *)

RECURSIVE LStrip(_)
LStrip(s) == IF s # <<>> /\ Head(s) \in Whitespace THEN LStrip(Tail(s)) ELSE s

RECURSIVE RStrip(_)
RStrip(s) ==
  IF s # <<>> /\ s[Len(s)] \in Whitespace THEN RStrip(SubSeq(s, 1, Len(s) - 1)) ELSE s

NoStrip(s) == s

\* (req.text or "").strip()
Strip(s) == RStrip(LStrip(s))

MockOnTrue(m) == m = "true"

\* MOCK_MODE == "1"
MockEnabled(m) == m = "1"

EmptyResult == [action |-> "allow", score |-> 0, reason |-> "empty_text", matched_seed |-> NULL]
MockResult == [action |-> "allow", score |-> 5, reason |-> "mock", matched_seed |-> NULL]

-----------------------------------------------------------------------------
(* moderate: provider chain *)

\* score = None, label = None, matched_seed = None
NoScore == [has |-> FALSE, score |-> 0, label |-> NULL, seed |-> NULL]

\* score = 0.5, label = "other", matched_seed = None
DefaultScore == [has |-> TRUE, score |-> 50, label |-> "other", seed |-> NULL]

\* obj.get("score", 0.0)
GetScore(obj) == IF obj.score.t = "absent" THEN [t |-> "num", v |-> 0] ELSE obj.score

\* obj.get("label", "other")
GetLabel(obj) == IF obj.label = ABSENT THEN "other" ELSE obj.label

\* obj.get("matched_seed")
GetSeed(obj) == IF obj.seed = ABSENT THEN NULL ELSE obj.seed

\* float(x) raises on None and on a string that is not a number
FloatRaises(f) == f.t \in {"null", "str"}

\* the try block of the primary provider: any exception leaves score = None
ParsePrimary(out) ==
  IF out.kind # "object" THEN NoScore
  ELSE IF FloatRaises(GetScore(out)) THEN NoScore
  ELSE [has |-> TRUE, score |-> GetScore(out).v, label |-> GetLabel(out), seed |-> GetSeed(out)]

\* the try block of the secondary provider: no JSON, a falsy JSON value and
\* any exception all give the default
ParseSecondary(out) ==
  IF out.kind # "object" THEN DefaultScore
  ELSE IF FloatRaises(GetScore(out)) THEN DefaultScore
  ELSE [has |-> TRUE, score |-> GetScore(out).v, label |-> GetLabel(out), seed |-> GetSeed(out)]

FallbackAlways(st, token) == token

\* score is None and HF_API_TOKEN
NeedFallback(st, token) == ~st.has /\ token

\* what a reply holds, whatever the handler makes of it: a JSON object with a
\* numeric score, a JSON object without the key "score", or neither
ReplyClass(out) ==
  IF out.kind # "object" THEN "failed"
  ELSE IF out.score.t = "num" THEN "score"
  ELSE IF out.score.t = "absent" THEN "noscore"
  ELSE "failed"

Call(who, out) == [who |-> who, reply |-> ReplyClass(out)]

\* steps 1) to 3) of moderate: the calls made, in order, and the score kept
Pipeline(c, pOut, sOut) ==
  LET p == IF c.groq_client THEN ParsePrimary(pOut) ELSE NoScore
      pCalls == IF c.groq_client THEN <<Call("primary", pOut)>> ELSE <<>>
      fb == NeedFallback(p, c.HF_API_TOKEN)
      s == IF fb THEN ParseSecondary(sOut) ELSE p
      sCalls == IF fb THEN <<Call("secondary", sOut)>> ELSE <<>>
      f == IF ~s.has THEN DefaultScore ELSE s
  IN  [calls |-> pCalls \o sCalls, st |-> f]

-----------------------------------------------------------------------------
(* moderate: decision and audit *)

DecideStrict(score, B, R) ==
  IF score > B THEN "block" ELSE IF score > R THEN "review" ELSE "allow"

\* Determine action from thresholds
Decide(score, B, R) ==
  IF score >= B THEN "block" ELSE IF score >= R THEN "review" ELSE "allow"

\* f"llm_{label}"
Reason(label) == "llm_" \o label

ProviderByScore(c, calls) ==
  IF calls = <<>> THEN "none"
  ELSE IF calls[Len(calls)].who = "primary" THEN "groq" ELSE "hf"

\* "groq" if groq_client is not None else "hf" if HF_API_TOKEN else "none"
Provider(c, calls) ==
  IF c.groq_client THEN "groq" ELSE IF c.HF_API_TOKEN THEN "hf" ELSE "none"

\* log_doc
LogDoc(ts, text, result, provider) ==
  [ts |-> ts, raw |-> text, action |-> result.action, score |-> result.score,
   reason |-> result.reason, matched_seed |-> result.matched_seed,
   provider |-> provider]

LogNotAllow(docs, doc, mongo, ok) ==
  IF ~mongo \/ doc.action = "allow"
    THEN [coll |-> docs, attempts |-> 0, failures |-> 0]
    ELSE IF ok THEN [coll |-> Append(docs, doc), attempts |-> 1, failures |-> 0]
    ELSE [coll |-> docs, attempts |-> 1, failures |-> 1]

LogWithRetry(docs, doc, mongo, ok) ==
  IF ~mongo \/ doc.action # "block"
    THEN [coll |-> docs, attempts |-> 0, failures |-> 0]
    ELSE IF ok THEN [coll |-> Append(docs, doc), attempts |-> 1, failures |-> 0]
    ELSE [coll |-> docs, attempts |-> 2, failures |-> 2]

\* log_to_mongo: the collection afterwards, the insert_one calls made and
\* how many of them raised
LogToMongo(docs, doc, mongo, ok) ==
  IF ~mongo \/ doc.action # "block"
    THEN [coll |-> docs, attempts |-> 0, failures |-> 0]
    ELSE IF ok THEN [coll |-> Append(docs, doc), attempts |-> 1, failures |-> 0]
    ELSE [coll |-> docs, attempts |-> 1, failures |-> 1]

-----------------------------------------------------------------------------
(* State *)

NoRequest ==
  [op |-> "none", raw |-> <<>>, calls |-> <<>>, status |-> 0, resp |-> EmptyResult,
   inserts |-> 0, insertFailed |-> FALSE, limit |-> 0, n |-> 0, results |-> <<>>]

Init ==
  /\ cfg \in Configs
  /\ clock = 0
  /\ coll = <<>>
  /\ nReq = 0
  /\ blocks = 0
  /\ attempts = 0
  /\ failures = 0
  /\ last = NoRequest

Reply(raw, calls, result, log) ==
  [NoRequest EXCEPT !.op = "moderate", !.raw = raw, !.calls = calls, !.status = 200,
                    !.resp = result, !.inserts = log.attempts,
                    !.insertFailed = log.failures > 0]

NoLog == [coll |-> coll, attempts |-> 0, failures |-> 0]

\* POST /moderate
Moderate(raw, pOut, sOut, insertOK) ==
  /\ nReq < MaxRequests
  /\ nReq' = nReq + 1
  /\ LET text == Strip(raw)
         run == Pipeline(cfg, pOut, sOut)
         action == Decide(run.st.score, cfg.BLOCK_THRESHOLD, cfg.REVIEW_THRESHOLD)
         result == [action |-> action, score |-> run.st.score,
                    reason |-> Reason(run.st.label), matched_seed |-> run.st.seed]
         doc == LogDoc(clock, text, result, Provider(cfg, run.calls))
         log == LogToMongo(coll, doc, cfg.mongo_client, insertOK)
     IN  IF text = <<>>
           THEN /\ last' = Reply(raw, <<>>, EmptyResult, NoLog)
                /\ UNCHANGED <<coll, blocks, attempts, failures>>
         ELSE IF MockEnabled(cfg.MOCK_MODE)
           THEN /\ last' = Reply(raw, <<>>, MockResult, NoLog)
                /\ UNCHANGED <<coll, blocks, attempts, failures>>
         ELSE /\ last' = Reply(raw, run.calls, result, log)
              /\ coll' = log.coll
              /\ blocks' = blocks + (IF action = "block" THEN 1 ELSE 0)
              /\ attempts' = attempts + log.attempts
              /\ failures' = failures + log.failures
  /\ UNCHANGED <<cfg, clock>>

-----------------------------------------------------------------------------
(* /admin/logs *)

Abs(n) == IF n < 0 THEN 0 - n ELSE n
Min(a, b) == IF a < b THEN a ELSE b

\* insert_one gives the i-th stored document the i-th ObjectId
Stored(docs) == [i \in 1..Len(docs) |-> [id |-> i, doc |-> docs[i]]]

\* find().sort("ts", -1): every order of the documents with ts descending
SortDesc(items) ==
  LET n == Len(items)
      orders == {f \in [1..n -> 1..n] : \A i, j \in 1..n : i # j => f[i] # f[j]}
  IN  {[i \in 1..n |-> items[f[i]]] : f \in
         {g \in orders : \A i \in 1..n : i < n => items[g[i]].doc.ts >= items[g[i + 1]].doc.ts}}

\* cursor.limit(k): 0 is no limit, a negative k is the limit -k in one batch
Limit(items, k) ==
  IF k = 0 THEN items ELSE SubSeq(items, 1, Min(Abs(k), Len(items)))

\* d["_id"] = str(d["_id"])
StrId(items) == [i \in 1..Len(items) |-> [id |-> <<"str", items[i].id>>, doc |-> items[i].doc]]

\* GET /admin/logs?limit=N
AdminLogs(limit, findOK) ==
  /\ IF ~cfg.mongo_client \/ ~findOK
       THEN last' = [NoRequest EXCEPT !.op = "logs", !.status = 500, !.limit = limit]
       ELSE \E sorted \in SortDesc(Stored(coll)) :
              LET items == StrId(Limit(sorted, limit))
              IN  last' = [NoRequest EXCEPT !.op = "logs", !.status = 200, !.limit = limit,
                                            !.n = Len(items), !.results = items]
  /\ UNCHANGED <<cfg, clock, coll, nReq, blocks, attempts, failures>>

\* time.time() moves on between requests
Tick ==
  /\ clock < MaxClock
  /\ clock' = clock + 1
  /\ UNCHANGED <<cfg, coll, nReq, blocks, attempts, failures, last>>

\* the reply of a provider or of the database is an input only where the
\* handler makes the call
Reached(raw) == Strip(raw) # <<>> /\ ~MockEnabled(cfg.MOCK_MODE)

PrimaryReplies(raw) ==
  IF Reached(raw) /\ cfg.groq_client THEN PrimaryOutcomes ELSE {Throw}

SecondaryReplies(raw, pOut) ==
  IF Reached(raw) /\ Len(Pipeline(cfg, pOut, Throw).calls) > (IF cfg.groq_client THEN 1 ELSE 0)
    THEN SecondaryOutcomes ELSE {Throw}

InsertReplies(raw, pOut, sOut) ==
  IF Reached(raw) /\ cfg.mongo_client THEN BOOLEAN ELSE {TRUE}

FindReplies == IF cfg.mongo_client THEN BOOLEAN ELSE {TRUE}

Next ==
  \/ \E raw \in Texts : \E pOut \in PrimaryReplies(raw) :
       \E sOut \in SecondaryReplies(raw, pOut) : \E ok \in InsertReplies(raw, pOut, sOut) :
         Moderate(raw, pOut, sOut, ok)
  \/ \E limit \in Limits, ok \in FindReplies : AdminLogs(limit, ok)
  \/ Tick

Spec == Init /\ [][Next]_vars

TypeOK ==
  /\ cfg \in Configs
  /\ clock \in 0..MaxClock
  /\ nReq \in 0..MaxRequests
  /\ blocks \in 0..nReq
  /\ last.op \in {"none", "moderate", "logs"}

-----------------------------------------------------------------------------
(* Properties *)

IsModerate == last.op = "moderate"

\* the request text is empty or whitespace only
IsBlank(t) == \A i \in 1..Len(t) : t[i] \in Whitespace

\* the last request was a /moderate request that reached the threshold step
Scored == IsModerate /\ ~IsBlank(last.raw) /\ cfg.MOCK_MODE # "1"

CallsOf(who) == {i \in 1..Len(last.calls) : last.calls[i].who = who}

C2_EmptyText ==
  (IsModerate /\ IsBlank(last.raw)) =>
    /\ last.status = 200
    /\ last.resp = [action |-> "allow", score |-> 0, reason |-> "empty_text",
                    matched_seed |-> NULL]
    /\ last.calls = <<>>
    /\ last.inserts = 0

\* a whitespace-only text with both providers and the database configured
C2_Witness ==
  /\ IsModerate
  /\ last.raw # <<>>
  /\ IsBlank(last.raw)
  /\ cfg.groq_client /\ cfg.HF_API_TOKEN /\ cfg.mongo_client /\ cfg.MOCK_MODE = "0"
  /\ last.resp.reason = "empty_text"

\* C3, as stated: in mock mode every /moderate request, whatever its text, is
\* answered {allow, 0.05, "mock"} with no provider call and no audit write.
C3_MockEveryText ==
  (IsModerate /\ cfg.MOCK_MODE = "1") =>
    /\ last.resp.action = "allow"
    /\ last.resp.score = 5
    /\ last.resp.reason = "mock"
    /\ last.calls = <<>>
    /\ last.inserts = 0

\* C3, amended: in mock mode no /moderate request makes a provider call or an
\* audit write, and every request whose text is not blank is answered
\* {allow, 0.05, "mock", null}.
C3_MockNonBlankText ==
  (IsModerate /\ cfg.MOCK_MODE = "1") =>
    /\ last.calls = <<>>
    /\ last.inserts = 0
    /\ attempts = 0
    /\ ~IsBlank(last.raw) =>
         /\ last.status = 200
         /\ last.resp = [action |-> "allow", score |-> 5, reason |-> "mock",
                         matched_seed |-> NULL]

\* mock mode, a text that is not blank, every client configured
C3_Witness ==
  /\ IsModerate
  /\ cfg.MOCK_MODE = "1"
  /\ ~IsBlank(last.raw)
  /\ cfg.groq_client /\ cfg.HF_API_TOKEN /\ cfg.mongo_client
  /\ last.resp.reason = "mock"

\* C4, as stated: with a database client, the number of stored entries always
\* equals the number of block decisions made.
C4_StoredEqualsBlocks ==
  cfg.mongo_client => Len(coll) = blocks

\* C4, amended: with a database client, a request whose action is block makes
\* exactly one insert attempt and any other request makes none, so the insert
\* attempts equal the block decisions, and the stored entries are the block
\* decisions whose insert did not fail.  Without a database client nothing is
\* attempted.
C4_AttemptsEqualBlocks ==
  /\ cfg.mongo_client =>
       /\ attempts = blocks
       /\ Len(coll) = blocks - failures
       /\ IsModerate => last.inserts = (IF last.resp.action = "block" THEN 1 ELSE 0)
  /\ ~cfg.mongo_client => (attempts = 0 /\ coll = <<>>)

\* two block decisions, one stored and one whose insert failed
C4_Witness ==
  /\ cfg.mongo_client
  /\ blocks = 2
  /\ failures = 1
  /\ Len(coll) = 1

\* every provider call of the last request raised or returned nothing usable
NoProviderAnswered == \A i \in 1..Len(last.calls) : last.calls[i].reply = "failed"

\* C5: when no provider produces a usable score, /moderate answers with score
\* 0.5, reason "llm_other", matched_seed null and an action that is review or
\* allow, never block, for every pair of thresholds with B >= R.
C5_DefaultNeverBlocks ==
  (Scored /\ NoProviderAnswered /\ cfg.BLOCK_THRESHOLD >= cfg.REVIEW_THRESHOLD) =>
    /\ last.status = 200
    /\ last.resp.score = 50
    /\ last.resp.reason = "llm_other"
    /\ last.resp.matched_seed = NULL
    /\ last.resp.action \in {"review", "allow"}

\* C6: a primary reply without a usable score (the call raised, not JSON, not
\* an object, score absent, null or not a number) is a failed primary: the
\* secondary provider is called when a token is set, else the score is 0.5.
C6_PrimaryFailureFallsThrough ==
  (Scored /\ cfg.groq_client /\ last.calls[1].reply # "score") =>
    /\ last.status = 200
    /\ cfg.HF_API_TOKEN => (Len(last.calls) = 2 /\ last.calls[2].who = "secondary")
    /\ ~cfg.HF_API_TOKEN => (last.resp.score = 50 /\ last.resp.reason = "llm_other")

\* C7: in one request the primary is called at most once and first, the
\* secondary at most once, only with a token set and only when the primary is
\* not configured or did not return a score; nothing is called after a
\* primary reply with a score.
C7_ProviderChain ==
  IsModerate =>
    /\ Cardinality(CallsOf("primary")) <= 1
    /\ Cardinality(CallsOf("secondary")) <= 1
    /\ \A i \in CallsOf("primary") : i = 1 /\ cfg.groq_client
    /\ \A i \in CallsOf("secondary") :
         /\ cfg.HF_API_TOKEN
         /\ \/ ~cfg.groq_client
            \/ (i = 2 /\ last.calls[1].who = "primary" /\ last.calls[1].reply # "score")
    /\ \A i \in 1..Len(last.calls) :
         (last.calls[i].who = "primary" /\ last.calls[i].reply = "score") => i = Len(last.calls)

\* the primary failed and the secondary was called after it
C7_Witness ==
  /\ IsModerate
  /\ Len(last.calls) = 2
  /\ last.calls[1] = [who |-> "primary", reply |-> "failed"]
  /\ last.calls[2].who = "secondary"

\* C8: when the audit insert of a block decision fails, /moderate still
\* answers 200 with the block result, and the insert was attempted once.
C8_InsertFailureSilent ==
  (IsModerate /\ last.insertFailed) =>
    /\ last.status = 200
    /\ last.inserts = 1
    /\ last.resp.action = "block"
    /\ last.resp.score >= cfg.BLOCK_THRESHOLD
    /\ last.resp.reason \in {"llm_hate", "llm_other"}
    /\ attempts - failures = Len(coll)

\* a block decision whose insert failed
C8_Witness ==
  /\ IsModerate
  /\ last.insertFailed
  /\ last.resp.action = "block"
  /\ cfg.mongo_client

Max(a, b) == IF a < b THEN b ELSE a

\* C9: GET /admin/logs?limit=N answers 500 without a database client;
\* otherwise its answer {n, results} has at most N entries, in descending
\* timestamp order, the most recent ones, and n is their number.
C9_AdminLogs ==
  (last.op = "logs") =>
    /\ ~cfg.mongo_client => last.status = 500
    /\ (cfg.mongo_client /\ last.status = 200) =>
         /\ last.n = Len(last.results)
         /\ Len(last.results) <= Max(last.limit, 0)
         /\ \A i \in 1..Len(last.results) : \A j \in 1..Len(last.results) :
              i < j => last.results[i].doc.ts >= last.results[j].doc.ts
         /\ \A i \in 1..Len(last.results) : \A k \in 1..Len(coll) :
              coll[k].ts > last.results[i].doc.ts =>
                \E j \in 1..Len(last.results) : last.results[j].id = <<"str", k>>

\* C10: meta.provider of an audit entry follows the configuration alone:
\* "groq" with a primary client, else "hf" with a secondary token, else "none".
C10_ProviderFromConfig ==
  \A i \in 1..Len(coll) :
    /\ cfg.groq_client => coll[i].provider = "groq"
    /\ (~cfg.groq_client /\ cfg.HF_API_TOKEN) => coll[i].provider = "hf"
    /\ (~cfg.groq_client /\ ~cfg.HF_API_TOKEN) => coll[i].provider = "none"

\* an entry marked "groq" whose score the secondary provider produced
C10_Witness ==
  /\ IsModerate
  /\ Len(last.calls) = 2
  /\ last.calls[2] = [who |-> "secondary", reply |-> "score"]
  /\ last.inserts = 1
  /\ ~last.insertFailed
  /\ coll # <<>>
  /\ coll[Len(coll)].provider = "groq"

====
